---- MODULE Spec2Model ----
(***************************************************************************)
(* State-machine model of src/main.py: VoiceEnabledInterviewMate.          *)
(*                                                                         *)
(* Strings are sequences of one-character strings, so that lower(),        *)
(* strip(), int(), " ".join and "\n".join are computed character by        *)
(* character, as Python computes them.                                     *)
(*                                                                         *)
(* Locals that Python leaves unbound before their first assignment hold a  *)
(* default here (the empty string, 0, FALSE); the code never reads them    *)
(* before assigning them.                                                  *)
(***************************************************************************)
EXTENDS Integers, Sequences, FiniteSets, TLC

VARIABLES
    pc,                  \* position of run_interview_session / get_user_answer
    job_topic,           \* main.py:151
    voice_preference,    \* main.py:155
    use_voice,           \* main.py:156
    questions_per_round, \* main.py:162
    question_number,     \* main.py:170
    continue_practice,   \* main.py:171
    previous_questions,  \* main.py:172
    i,                   \* main.py:175, number of loop iterations completed in this round
    interview_question,  \* main.py:182
    user_answer,         \* main.py:195
    feedback,            \* main.py:199
    continue_input,      \* main.py:212
    question_inputs,     \* main.py:182-186, the argument of question_chain.invoke
    feedback_inputs,     \* main.py:199-203, the argument of feedback_chain.invoke
    answer_parts,        \* main.py:116
    silence_count,       \* main.py:117
    answer_lines,        \* main.py:134
    last_spoken,         \* the last utterance handed to speak(), main.py:87-91
    \* history variables (observations of the run, never read by the program)
    entries,             \* the lines typed at the questions-per-round prompt
    heard,               \* the listen() outcomes of the current voice collection
    typed,               \* the lines read by the current text collection
    announced,           \* the numbers announced as "Question n:"
    model_questions,     \* the texts returned by question_chain.invoke
    round_n,             \* question_number when the current round started
    round_prev,          \* previous_questions when the current round started
    round_cycles,        \* feedback announcements since the current round started
    voice_reply,         \* the line typed at the voice-input prompt
    question_calls,      \* calls of question_chain.invoke issued
    feedback_calls,      \* calls of feedback_chain.invoke issued
    fault_site,          \* the call that raised, "" while none has
    reminders,           \* reminders spoken in the current voice collection
    closing_count,       \* times the closing message was spoken
    iter_log             \* the operations of the current loop iteration, in order

vars == <<pc, job_topic, voice_preference, use_voice, questions_per_round,
          question_number, continue_practice, previous_questions, i,
          interview_question, user_answer, feedback, continue_input,
          answer_parts, silence_count, answer_lines, last_spoken, entries,
          heard, typed, announced, model_questions, round_n, round_prev,
          round_cycles, question_inputs, feedback_inputs, voice_reply,
          question_calls, feedback_calls, fault_site, reminders,
          closing_count, iter_log>>

(***************************************************************************)
(* Bounds of the model.                                                    *)
(***************************************************************************)
MaxQuestions == 3   \* questions generated in one session
MaxListen == 7      \* listen() calls in one voice collection
MaxLines == 4       \* lines read in one text collection
MaxEntries == 4     \* lines typed at the questions-per-round prompt

(***************************************************************************)
(* Python string operations.                                               *)
(***************************************************************************)
EmptyStr == <<>>

Whitespace == {" ", "\t"}

Digits == {"0", "1", "2", "3", "4", "5", "6", "7", "8", "9"}

DigitValue(c) ==
    CASE c = "0" -> 0 [] c = "1" -> 1 [] c = "2" -> 2 [] c = "3" -> 3
      [] c = "4" -> 4 [] c = "5" -> 5 [] c = "6" -> 6 [] c = "7" -> 7
      [] c = "8" -> 8 [] c = "9" -> 9

\* str.lower() on one character (the letters the inputs of the model use)
LowerChar(c) ==
    CASE c = "Y" -> "y" [] c = "E" -> "e" [] c = "S" -> "s"
      [] c = "N" -> "n" [] c = "O" -> "o"
      [] OTHER -> c

\* str.lower()
Lower(s) == [k \in 1..Len(s) |-> LowerChar(s[k])]

RECURSIVE LStrip(_)
LStrip(s) ==
    IF s # <<>> /\ Head(s) \in Whitespace THEN LStrip(Tail(s)) ELSE s

RECURSIVE RStrip(_)
RStrip(s) ==
    IF s # <<>> /\ s[Len(s)] \in Whitespace
    THEN RStrip(SubSeq(s, 1, Len(s) - 1))
    ELSE s

\* str.strip()
Strip(s) == RStrip(LStrip(s))

RECURSIVE DecimalValue(_)
DecimalValue(ds) ==
    IF ds = <<>> THEN 0
    ELSE 10 * DecimalValue(SubSeq(ds, 1, Len(ds) - 1)) + DigitValue(ds[Len(ds)])

\* int(str): surrounding whitespace is dropped, one optional sign, then one
\* or more decimal digits give [ok |-> TRUE, value |-> n]; anything else
\* raises ValueError, [ok |-> FALSE, value |-> 0]
ParseInt(s) ==
    LET t == Strip(s)
        signed == t # <<>> /\ Head(t) \in {"+", "-"}
        ds == IF signed THEN Tail(t) ELSE t
    IN  IF ds # <<>> /\ \A k \in 1..Len(ds) : ds[k] \in Digits
        THEN [ok |-> TRUE,
              value |-> IF signed /\ Head(t) = "-" THEN 0 - DecimalValue(ds)
                        ELSE DecimalValue(ds)]
        ELSE [ok |-> FALSE, value |-> 0]

RECURSIVE Join(_, _)
\* sep.join(parts)
Join(sep, parts) ==
    IF parts = <<>> THEN <<>>
    ELSE IF Len(parts) = 1 THEN parts[1]
    ELSE parts[1] \o sep \o Join(sep, Tail(parts))

DigitChar(d) ==
    CASE d = 0 -> "0" [] d = 1 -> "1" [] d = 2 -> "2" [] d = 3 -> "3"
      [] d = 4 -> "4" [] d = 5 -> "5" [] d = 6 -> "6" [] d = 7 -> "7"
      [] d = 8 -> "8" [] d = 9 -> "9"

RECURSIVE IntStr(_)
\* str(n) of an int n >= 0
IntStr(n) ==
    IF n < 10 THEN <<DigitChar(n)>>
    ELSE IntStr(n \div 10) \o <<DigitChar(n % 10)>>

\* the quote repr() puts around a str: double quotes when the text holds a
\* single quote and no double quote
ReprQuote(s) ==
    IF (\E k \in 1..Len(s) : s[k] = "'") /\ (\A k \in 1..Len(s) : s[k] # "\"")
    THEN "\"" ELSE "'"

\* repr() of one character inside quote q
ReprChar(c, q) ==
    CASE c = q -> <<"\\", c>>
      [] c = "\\" -> <<"\\", "\\">>
      [] c = "\n" -> <<"\\", "n">>
      [] c = "\t" -> <<"\\", "t">>
      [] c = "\r" -> <<"\\", "r">>
      [] OTHER -> <<c>>

\* repr(s) of a str
ReprStr(s) ==
    LET q == ReprQuote(s)
    IN  <<q>> \o Join(<<>>, [k \in 1..Len(s) |-> ReprChar(s[k], q)]) \o <<q>>

\* A value that is None or a str: [isNone |-> BOOLEAN, text |-> str]
NoneVal == [isNone |-> TRUE, text |-> <<>>]

StrVal(s) == [isNone |-> FALSE, text |-> s]

\* truthiness of a value that is None or a str (main.py:122)
Truthy(x) == ~x.isNone /\ x.text # <<>>

(***************************************************************************)
(* Texts of the program.                                                   *)
(***************************************************************************)
\* main.py:130
NoAnswerProvided ==
    <<"N", "o", " ", "a", "n", "s", "w", "e", "r", " ",
      "p", "r", "o", "v", "i", "d", "e", "d", ".">>

\* a slip of main.py:156 and main.py:213: "y" is left out
YesReplies_short == {<<"y", "e", "s">>}

\* main.py:156 and main.py:213
YesReplies == {<<"y", "e", "s">>, <<"y">>}

\* speak(text), main.py:87-91: a fixed message is named by msg, a computed
\* one (question number, question, feedback) carries its text
Fixed(m) == [msg |-> m, text |-> <<>>]

Computed(m, t) == [msg |-> m, text |-> t]

(***************************************************************************)
(* The speech recognizer: listen(), main.py:93-110.                        *)
(***************************************************************************)
Recognized(s) == [kind |-> "Recognized", text |-> s]

Unrecognized == [kind |-> "Unrecognized", text |-> <<>>]

ServiceError == [kind |-> "ServiceError", text |-> <<>>]

\* the microphone or the recognizer raises anything but UnknownValueError
\* and RequestError
OtherError == [kind |-> "OtherError", text |-> <<>>]

\* a slip of main.py:108-110: RequestError is not caught
Listen_uncaught(o) ==
    CASE o.kind = "Recognized" -> [raised |-> FALSE, value |-> StrVal(o.text)]
      [] o.kind = "Unrecognized" -> [raised |-> FALSE, value |-> NoneVal]
      [] OTHER -> [raised |-> TRUE, value |-> NoneVal]

\* how listen() ends for an outcome of the recognizer: it returns the text,
\* returns None after UnknownValueError and after RequestError, and lets
\* any other exception through
Listen(o) ==
    CASE o.kind = "Recognized" -> [raised |-> FALSE, value |-> StrVal(o.text)]
      [] o.kind \in {"Unrecognized", "ServiceError"} ->
            [raised |-> FALSE, value |-> NoneVal]
      [] OTHER -> [raised |-> TRUE, value |-> NoneVal]

(***************************************************************************)
(* Inputs of the model.                                                    *)
(***************************************************************************)
Topics == {<<"S", "E">>, <<"D", "S">>}

QuestionTexts == {<<"Q", "a">>, <<" ", "Q", "b">>}

FeedbackTexts == {<<"F", "a">>, <<"F", "b">>}

\* inputs of a whole session
SessionVoiceReplies == {<<"Y">>, <<"n", "o">>}

SessionEntries == {<<"0">>, <<"1">>, <<"2">>}

SessionOutcomes == {Recognized(<<"a">>), Unrecognized, OtherError}

SessionLines == {<<>>, <<"x">>}

SessionDecisions == {<<"Y">>, <<"n", "o">>}

\* lines typed at the questions-per-round prompt
CountEntries ==
    {<<"-", "1">>, <<"0">>, <<"a", "b", "c">>, <<>>, <<"1">>, <<" ", "2">>,
     <<"+", "1">>, <<"0", "2">>, <<"1", "a">>}

\* replies typed at the voice prompt, and the inputs of the sessions that
\* follow them
FrameVoiceReplies ==
    {<<"y", "e", "s">>, <<"Y", "E", "S">>, <<"y">>, <<"Y">>, <<"Y", "e", "s">>,
     <<"n", "o">>, <<"y", "e", "s", " ">>, <<"o", "n">>, <<>>}
FrameEntries == {<<"1">>, <<"2">>}
FrameQuestions == {<<"Q", "a">>}
FrameFeedbacks == {<<"F", "a">>}
FrameOutcomes == {Recognized(<<"a">>), Unrecognized, OtherError}
FrameLines == {<<>>, <<"x">>}

\* replies typed at the continuation prompt
DecisionReplies ==
    {<<"y", "e", "s">>, <<"Y", "E", "S">>, <<"Y", "e", "s">>, <<"y">>, <<"Y">>,
     <<"n", "o">>, <<"N">>, <<"y", "e", "s", " ">>, <<" ", "y">>,
     <<"y", "e", "p">>, <<>>}

\* inputs of one voice collection
Word_a == <<"a">>

Word_b == <<"b">>

VoiceOutcomes ==
    {Recognized(Word_a), Recognized(Word_b), Recognized(EmptyStr),
     Unrecognized, ServiceError, OtherError}

\* inputs of one text collection
Line_hello == <<"h", "e", "l", "l", "o">>

Line_world == <<"w", "o", "r", "l", "d">>

TextLines == {<<>>, <<" ", "\t">>, Line_hello, Line_world, <<" ", "x", " ">>}

(***************************************************************************)
(* Pieces of run_interview_session and get_user_answer.                    *)
(***************************************************************************)
\* main.py:118
max_silence == 3

\* a slip of main.py:163: >= for >
AcceptCount_nonneg(n) == n >= 0

\* main.py:163
AcceptCount(n) == n > 0

\* a slip of main.py:175: range(questions_per_round - 1)
RoundHasNext_short(idx, k) == idx < k - 1

\* main.py:175: range(questions_per_round) has an element left after idx
RoundHasNext(idx, k) == idx < k

\* main.py:175: where the for loop goes with idx iterations done
ForEntry(idx, k) == IF RoundHasNext(idx, k) THEN "gen_question" ELSE "decision"

\* a slip of main.py:188: the new question is put in front
AppendQuestion_front(pq, q) == <<q>> \o pq

\* main.py:188
AppendQuestion(pq, q) == Append(pq, q)

\* a slip of main.py:208: the number starts again at 1 after each question
NextQuestionNumber_reset(n) == 1

\* main.py:208
NextQuestionNumber(n) == n + 1

\* a slip of main.py:120: <= for <
LoopContinues_late(c) == c <= max_silence

\* main.py:120
LoopContinues(c) == c < max_silence

\* a slip of main.py:122: "is not None" for truthiness
IsAnswerPart_notNone(user_input) == ~user_input.isNone

\* main.py:122: the listen() result counts as an answer part
IsAnswerPart(user_input) == Truthy(user_input)

\* a slip of main.py:130: the fallback is left out
VoiceResult_nofallback(parts) == Join(<<" ">>, parts)

\* main.py:130
VoiceResult(parts) ==
    IF parts # <<>> THEN Join(<<" ">>, parts) ELSE NoAnswerProvided

\* a slip of main.py:137: strip() is left out
IsBlankLine_nostrip(line) == line = EmptyStr

\* main.py:137
IsBlankLine(line) == Strip(line) = EmptyStr

\* a slip of main.py:138-139: the check for earlier content is left out
BlankEnds_always(lines) == TRUE

\* main.py:138-140: a blank line ends the collection
BlankEnds(lines) == lines # <<>>

\* main.py:143
TextResult(lines) == Join(<<"\n">>, lines)

\* a slip of main.py:213: .lower() is left out
IsYes_nolower(reply) == reply \in YesReplies

\* main.py:156, main.py:213
IsYes(reply) == Lower(reply) \in YesReplies

\* a slip of main.py:127: the test is >= 1
RemindAt_every(c) == c >= 1

\* main.py:127
RemindAt(c) == c = 1

\* main.py:179
NoneYet == <<"N", "o", "n", "e", " ", "y", "e", "t", ".">>

\* a slip of main.py:179: the marker of the empty list is left out
FormatPrevious_nomarker(pq) ==
    Join(<<"\n">>, [k \in 1..Len(pq) |-> <<"-", " ">> \o pq[k]])

\* main.py:179
FormatPrevious(pq) ==
    IF pq # <<>>
    THEN Join(<<"\n">>, [k \in 1..Len(pq) |-> <<"-", " ">> \o pq[k]])
    ELSE NoneYet

\* a slip of main.py:184: the number is taken from the length of the list
QuestionInputs_zerobased(topic, n, pq) ==
    [job_topic |-> topic, question_number |-> Len(pq),
     previous_questions |-> FormatPrevious(pq)]

\* main.py:182-186
QuestionInputs(topic, n, pq) ==
    [job_topic |-> topic, question_number |-> n,
     previous_questions |-> FormatPrevious(pq)]

\* str() of the dict of main.py:182-186, which format() applies to the
\* value of a placeholder
StrOfQuestionInputs(d) ==
    <<"{", "'job_topic'", ":", " ">> \o ReprStr(d.job_topic)
    \o <<",", " ", "'question_number'", ":", " ">> \o IntStr(d.question_number)
    \o <<",", " ", "'previous_questions'", ":", " ">>
    \o ReprStr(d.previous_questions) \o <<"}">>

\* RunnablePassthrough(), main.py:74: the input, unchanged
RunnablePassthrough(input) == input

\* main.py:74: the dict of the chain runs each of its values on the input
\* of the chain, the whole dict handed to invoke()
QuestionChainValues(input) ==
    [job_topic |-> RunnablePassthrough(input),
     question_number |-> RunnablePassthrough(input),
     previous_questions |-> RunnablePassthrough(input)]

\* main.py:12-31 and main.py:75: question_template with str() of each value
\* in the place of its placeholder; every newline and the "- " of a line are
\* elements of their own
RenderQuestionPrompt(v) ==
    <<"\n",
      "You are an AI interview assistant named \"InterviewMate\". You are an expert interviewer for all professional fields.",
      "\n", "\n",
      "The user wants to practice for an interview in the field of: ">>
    \o StrOfQuestionInputs(v.job_topic)
    \o <<"\n", "\n",
         "Generate a challenging and realistic interview question about ">>
    \o StrOfQuestionInputs(v.job_topic)
    \o <<". This should be question #">>
    \o StrOfQuestionInputs(v.question_number)
    \o <<" in the practice session.", "\n", "\n",
         "Make sure the question is:", "\n",
         "-", " ", "Technical and specific to the job topic", "\n",
         "-", " ", "Similar to what might be asked in a real interview", "\n",
         "-", " ", "Challenging but answerable", "\n",
         "-", " ", "Clear and concise", "\n", "\n",
         "Previous questions asked in this session:", "\n">>
    \o StrOfQuestionInputs(v.previous_questions)
    \o <<"\n", "\n",
         "IMPORTANT: Do NOT repeat any of the previous questions. Generate a completely new and different question.",
         "\n", "\n",
         "Return ONLY the interview question without any introductory text or explanations.",
         "\n">>

\* main.py:73-75 and main.py:182: the prompt question_chain hands to the llm
QuestionPrompt(input) == RenderQuestionPrompt(QuestionChainValues(input))

\* a slip of main.py:201: the question is stripped on its way
FeedbackInputs_stripped(topic, q, a) ==
    [job_topic |-> topic, question |-> Strip(q), answer |-> a]

\* main.py:199-203
FeedbackInputs(topic, q, a) == [job_topic |-> topic, question |-> q, answer |-> a]

\* a slip of main.py:181-206: the call is wrapped in a loop that tries again
AfterFault_retry(site) ==
    CASE site = "question" -> "gen_question"
      [] site = "feedback" -> "gen_feedback"
      [] OTHER -> "crashed"

\* main.py:181-206: nothing catches an exception of a chain or of listen(),
\* the process ends
AfterFault(site) == "crashed"

(***************************************************************************)
(* Initial state: the object is constructed, run_interview_session starts.  *)
(***************************************************************************)
Init ==
    /\ pc = "cfg_topic"
    /\ job_topic = EmptyStr
    /\ voice_preference = EmptyStr
    /\ use_voice = FALSE
    /\ questions_per_round = 0
    /\ question_number = 0
    /\ continue_practice = FALSE
    /\ previous_questions = <<>>
    /\ i = 0
    /\ interview_question = EmptyStr
    /\ user_answer = EmptyStr
    /\ feedback = EmptyStr
    /\ continue_input = EmptyStr
    /\ answer_parts = <<>>
    /\ silence_count = 0
    /\ answer_lines = <<>>
    /\ last_spoken = Fixed("")
    /\ entries = <<>>
    /\ heard = <<>>
    /\ typed = <<>>
    /\ announced = <<>>
    /\ model_questions = <<>>
    /\ round_n = 0
    /\ round_prev = <<>>
    /\ round_cycles = 0
    /\ question_inputs = QuestionInputs(EmptyStr, 0, <<>>)
    /\ feedback_inputs = FeedbackInputs(EmptyStr, EmptyStr, EmptyStr)
    /\ voice_reply = EmptyStr
    /\ question_calls = 0
    /\ feedback_calls = 0
    /\ fault_site = ""
    /\ reminders = 0
    /\ closing_count = 0
    /\ iter_log = <<>>

configVars == <<job_topic, voice_preference, use_voice, questions_per_round>>

sessionVars == <<question_number, continue_practice, previous_questions, i,
                 continue_input>>

iterVars == <<interview_question, user_answer, feedback>>

voiceVars == <<answer_parts, silence_count, heard>>

textVars == <<answer_lines, typed>>

histVars == <<entries, announced, model_questions, round_n, round_prev,
              round_cycles>>

callVars == <<question_inputs, question_calls, feedback_inputs, feedback_calls>>

endVars == <<fault_site, closing_count>>

(***************************************************************************)
(* Configuration, main.py:147-172.                                         *)
(***************************************************************************)
\* main.py:147-151
ConfigTopic(t) ==
    /\ pc = "cfg_topic"
    /\ UNCHANGED <<callVars, endVars, voice_reply, reminders, iter_log>>
    /\ job_topic' = t
    /\ last_spoken' = Fixed("Enter the job topic you want to practice for.")
    /\ pc' = "cfg_voice"
    /\ UNCHANGED <<voice_preference, use_voice, questions_per_round,
                   sessionVars, iterVars, voiceVars, textVars, histVars>>

\* main.py:154-159
ConfigVoice(v) ==
    /\ pc = "cfg_voice"
    /\ voice_reply' = v
    /\ UNCHANGED <<callVars, endVars, reminders, iter_log>>
    /\ voice_preference' = Lower(v)
    /\ use_voice' = IsYes(v)
    /\ last_spoken' = Fixed("How many questions would you like to practice per round?")
    /\ pc' = "cfg_count"
    /\ UNCHANGED <<job_topic, questions_per_round, sessionVars, iterVars,
                   voiceVars, textVars, histVars>>

\* main.py:160-175: one pass of the validation loop; a positive integer
\* leaves it, sets up the session and enters the first round
ConfigCount(e) ==
    /\ pc = "cfg_count"
    /\ UNCHANGED <<callVars, endVars, voice_reply, reminders, iter_log>>
    /\ Len(entries) < MaxEntries
    /\ entries' = Append(entries, e)
    /\ LET r == ParseInt(e) IN
       IF r.ok /\ AcceptCount(r.value)
       THEN /\ questions_per_round' = r.value
            /\ question_number' = 1
            /\ continue_practice' = TRUE
            /\ previous_questions' = <<>>
            /\ i' = 0
            /\ round_n' = 1
            /\ round_prev' = <<>>
            /\ round_cycles' = 0
            /\ pc' = ForEntry(0, r.value)
            /\ UNCHANGED last_spoken
       ELSE /\ questions_per_round' = IF r.ok THEN r.value ELSE questions_per_round
            /\ last_spoken' = IF r.ok THEN Fixed("Please enter a positive number.")
                              ELSE Fixed("Please enter a valid number.")
            /\ pc' = "cfg_count"
            /\ UNCHANGED <<question_number, continue_practice,
                           previous_questions, i, round_n, round_prev,
                           round_cycles>>
    /\ UNCHANGED <<job_topic, voice_preference, use_voice, continue_input,
                   iterVars, voiceVars, textVars, announced, model_questions>>

(***************************************************************************)
(* One iteration of the round, main.py:175-208.                            *)
(***************************************************************************)
\* main.py:179-188: the model returns q, which is appended
GenerateQuestion(q) ==
    /\ pc = "gen_question"
    /\ question_inputs' =
           QuestionInputs(job_topic, question_number, previous_questions)
    /\ question_calls' = question_calls + 1
    /\ iter_log' = <<"question_call", "append">>
    /\ UNCHANGED <<feedback_inputs, feedback_calls, endVars, voice_reply,
                   reminders>>
    /\ Len(previous_questions) < MaxQuestions
    /\ interview_question' = q
    /\ previous_questions' = AppendQuestion(previous_questions, q)
    /\ model_questions' = Append(model_questions, q)
    /\ pc' = "announce_question"
    /\ UNCHANGED <<configVars, question_number, continue_practice, i,
                   continue_input, user_answer, feedback, voiceVars, textVars,
                   last_spoken, entries, announced, round_n, round_prev,
                   round_cycles>>

\* main.py:182: question_chain.invoke raises
QuestionFault ==
    /\ pc = "gen_question"
    /\ question_inputs' =
           QuestionInputs(job_topic, question_number, previous_questions)
    /\ question_calls' = question_calls + 1
    /\ iter_log' = <<"question_call">>
    /\ fault_site' = "question"
    /\ UNCHANGED <<feedback_inputs, feedback_calls, closing_count,
                   voice_reply, reminders>>
    /\ Len(previous_questions) < MaxQuestions
    /\ pc' = AfterFault("question")
    /\ UNCHANGED <<configVars, sessionVars, iterVars, voiceVars, textVars,
                   last_spoken, histVars>>

\* a slip of main.py:191-199: the call of get_user_answer is left out
AnnounceQuestion_skipanswer ==
    /\ pc = "announce_question"
    /\ iter_log' = Append(iter_log, "announce_question")
    /\ UNCHANGED <<callVars, endVars, voice_reply, reminders>>
    /\ announced' = Append(announced, question_number)
    /\ last_spoken' = Computed("question", interview_question)
    /\ pc' = "gen_feedback"
    /\ UNCHANGED <<configVars, sessionVars, iterVars, voiceVars, textVars,
                   entries, model_questions, round_n, round_prev, round_cycles>>

\* main.py:191-192
AnnounceQuestion ==
    /\ pc = "announce_question"
    /\ iter_log' = Append(iter_log, "announce_question")
    /\ UNCHANGED <<callVars, endVars, voice_reply, reminders>>
    /\ announced' = Append(announced, question_number)
    /\ last_spoken' = Computed("question", interview_question)
    /\ pc' = "get_answer"
    /\ UNCHANGED <<configVars, sessionVars, iterVars, voiceVars, textVars,
                   entries, model_questions, round_n, round_prev, round_cycles>>

\* main.py:114-117: get_user_answer(True) starts
VoiceStart ==
    /\ pc = "get_answer"
    /\ reminders' = 0
    /\ iter_log' = Append(iter_log, "collect")
    /\ UNCHANGED <<callVars, endVars, voice_reply>>
    /\ use_voice
    /\ last_spoken' = Fixed("Please provide your answer.")
    /\ answer_parts' = <<>>
    /\ silence_count' = 0
    /\ heard' = <<>>
    /\ pc' = "voice_listen"
    /\ UNCHANGED <<configVars, sessionVars, iterVars, textVars, histVars>>

\* main.py:120-128: one pass of the while loop, the recognizer ending with
\* outcome o; an exception listen() does not catch ends the process
VoiceListen(o) ==
    /\ pc = "voice_listen"
    /\ LoopContinues(silence_count)
    /\ Len(heard) < MaxListen
    /\ heard' = Append(heard, o)
    /\ LET r == Listen(o)
           user_input == r.value
       IN  IF r.raised
           THEN /\ pc' = AfterFault("listen")
                /\ fault_site' = "listen"
                /\ UNCHANGED <<answer_parts, silence_count, last_spoken,
                               reminders>>
           ELSE /\ pc' = "voice_listen"
                /\ UNCHANGED fault_site
                /\ IF IsAnswerPart(user_input)
                   THEN /\ answer_parts' = Append(answer_parts, user_input.text)
                        /\ silence_count' = 0
                        /\ UNCHANGED <<last_spoken, reminders>>
                   ELSE /\ silence_count' = silence_count + 1
                        /\ last_spoken' =
                              IF RemindAt(silence_count + 1)
                              THEN Fixed("Are you finished with your answer?")
                              ELSE last_spoken
                        /\ reminders' =
                              IF RemindAt(silence_count + 1)
                              THEN reminders + 1 ELSE reminders
                        /\ UNCHANGED answer_parts
    /\ UNCHANGED <<configVars, sessionVars, iterVars, textVars, histVars,
                   callVars, closing_count, voice_reply, iter_log>>

\* main.py:120, main.py:130 and main.py:195: the loop ends, the answer returns
VoiceReturn ==
    /\ pc = "voice_listen"
    /\ UNCHANGED <<callVars, endVars, voice_reply, reminders, iter_log>>
    /\ ~LoopContinues(silence_count)
    /\ user_answer' = VoiceResult(answer_parts)
    /\ pc' = "gen_feedback"
    /\ UNCHANGED <<configVars, sessionVars, interview_question, feedback,
                   voiceVars, textVars, last_spoken, histVars>>

\* main.py:131-134: get_user_answer(False) starts
TextStart ==
    /\ pc = "get_answer"
    /\ iter_log' = Append(iter_log, "collect")
    /\ UNCHANGED <<callVars, endVars, voice_reply, reminders>>
    /\ ~use_voice
    /\ answer_lines' = <<>>
    /\ typed' = <<>>
    /\ pc' = "text_input"
    /\ UNCHANGED <<configVars, sessionVars, iterVars, voiceVars, last_spoken,
                   histVars>>

\* main.py:135-143 and main.py:195: one pass of the while loop, input()
\* returning line; a blank line after content returns the answer
TextInput(line) ==
    /\ pc = "text_input"
    /\ UNCHANGED <<callVars, endVars, voice_reply, reminders, iter_log>>
    /\ Len(typed) < MaxLines
    /\ typed' = Append(typed, line)
    /\ IF IsBlankLine(line)
       THEN IF BlankEnds(answer_lines)
            THEN /\ user_answer' = TextResult(answer_lines)
                 /\ pc' = "gen_feedback"
                 /\ UNCHANGED answer_lines
            ELSE UNCHANGED <<pc, answer_lines, user_answer>>
       ELSE /\ answer_lines' = Append(answer_lines, line)
            /\ UNCHANGED <<pc, user_answer>>
    /\ UNCHANGED <<configVars, sessionVars, interview_question, feedback,
                   voiceVars, last_spoken, histVars>>

\* main.py:198-203: the model returns f
GenerateFeedback(f) ==
    /\ pc = "gen_feedback"
    /\ feedback_inputs' =
           FeedbackInputs(job_topic, interview_question, user_answer)
    /\ feedback_calls' = feedback_calls + 1
    /\ iter_log' = Append(iter_log, "feedback_call")
    /\ UNCHANGED <<question_inputs, question_calls, endVars, voice_reply,
                   reminders>>
    /\ last_spoken' = Fixed("Analyzing your answer...")
    /\ feedback' = f
    /\ pc' = "announce_feedback"
    /\ UNCHANGED <<configVars, sessionVars, interview_question, user_answer,
                   voiceVars, textVars, histVars>>

\* main.py:198-199: feedback_chain.invoke raises
FeedbackFault ==
    /\ pc = "gen_feedback"
    /\ feedback_inputs' =
           FeedbackInputs(job_topic, interview_question, user_answer)
    /\ feedback_calls' = feedback_calls + 1
    /\ iter_log' = Append(iter_log, "feedback_call")
    /\ fault_site' = "feedback"
    /\ UNCHANGED <<question_inputs, question_calls, closing_count,
                   voice_reply, reminders>>
    /\ last_spoken' = Fixed("Analyzing your answer...")
    /\ pc' = AfterFault("feedback")
    /\ UNCHANGED <<configVars, sessionVars, iterVars, voiceVars, textVars,
                   histVars>>

\* main.py:205-208 and main.py:175: feedback is announced, the question
\* number moves on, the for loop takes its next element or ends
AnnounceFeedback ==
    /\ pc = "announce_feedback"
    /\ iter_log' = Append(iter_log, "announce_feedback")
    /\ UNCHANGED <<callVars, endVars, voice_reply, reminders>>
    /\ last_spoken' = Computed("feedback", feedback)
    /\ question_number' = NextQuestionNumber(question_number)
    /\ i' = i + 1
    /\ round_cycles' = round_cycles + 1
    /\ pc' = ForEntry(i + 1, questions_per_round)
    /\ UNCHANGED <<configVars, continue_practice, previous_questions,
                   continue_input, iterVars, voiceVars, textVars, entries,
                   announced, model_questions, round_n, round_prev>>

(***************************************************************************)
(* Between rounds and the end, main.py:210-215.                            *)
(***************************************************************************)
\* main.py:211-213 and main.py:174-175: the reply decides whether the while
\* loop runs another round
RoundDecision(reply) ==
    /\ pc = "decision"
    /\ UNCHANGED <<callVars, endVars, voice_reply, reminders, iter_log>>
    /\ last_spoken' = Fixed("Would you like to continue with another round of questions?")
    /\ continue_input' = reply
    /\ continue_practice' = IsYes(reply)
    /\ IF IsYes(reply)
       THEN /\ i' = 0
            /\ round_n' = question_number
            /\ round_prev' = previous_questions
            /\ round_cycles' = 0
            /\ pc' = ForEntry(0, questions_per_round)
       ELSE /\ pc' = "closing"
            /\ UNCHANGED <<i, round_n, round_prev, round_cycles>>
    /\ UNCHANGED <<configVars, question_number, previous_questions, iterVars,
                   voiceVars, textVars, entries, announced, model_questions>>

\* main.py:215
Closing ==
    /\ pc = "closing"
    /\ closing_count' = closing_count + 1
    /\ UNCHANGED <<callVars, fault_site, voice_reply, reminders, iter_log>>
    /\ last_spoken' = Fixed("Thank you for using InterviewMate Practice System.")
    /\ pc' = "done"
    /\ UNCHANGED <<configVars, sessionVars, iterVars, voiceVars, textVars,
                   histVars>>

(***************************************************************************)
(* The session from its start, with the inputs of a whole session.         *)
(***************************************************************************)
Next ==
    \/ \E t \in Topics : ConfigTopic(t)
    \/ \E v \in SessionVoiceReplies : ConfigVoice(v)
    \/ \E e \in SessionEntries : ConfigCount(e)
    \/ \E q \in QuestionTexts : GenerateQuestion(q)
    \/ QuestionFault
    \/ AnnounceQuestion
    \/ VoiceStart
    \/ \E o \in SessionOutcomes : VoiceListen(o)
    \/ VoiceReturn
    \/ TextStart
    \/ \E l \in SessionLines : TextInput(l)
    \/ \E f \in FeedbackTexts : GenerateFeedback(f)
    \/ FeedbackFault
    \/ AnnounceFeedback
    \/ \E r \in SessionDecisions : RoundDecision(r)
    \/ Closing

Spec == Init /\ [][Next]_vars

(***************************************************************************)
(* The configuration prompts alone, with more kinds of typed lines.        *)
(***************************************************************************)
NextConfig ==
    \/ \E t \in Topics : ConfigTopic(t)
    \/ \E v \in SessionVoiceReplies : ConfigVoice(v)
    \/ \E e \in CountEntries : ConfigCount(e)

SpecConfig == Init /\ [][NextConfig]_vars

(***************************************************************************)
(* One answer collection alone, from the state in which the first question *)
(* of a one-question round has just been announced, with more kinds of     *)
(* recognizer outcomes and of typed lines.                                 *)
(***************************************************************************)
InitAnswer(voice) ==
    /\ pc = "get_answer"
    /\ job_topic = <<"S", "E">>
    /\ voice_preference = (IF voice THEN <<"y">> ELSE <<"n", "o">>)
    /\ use_voice = voice
    /\ questions_per_round = 1
    /\ question_number = 1
    /\ continue_practice = TRUE
    /\ previous_questions = << <<"Q", "a">> >>
    /\ i = 0
    /\ interview_question = <<"Q", "a">>
    /\ user_answer = EmptyStr
    /\ feedback = EmptyStr
    /\ continue_input = EmptyStr
    /\ answer_parts = <<>>
    /\ silence_count = 0
    /\ answer_lines = <<>>
    /\ last_spoken = Computed("question", <<"Q", "a">>)
    /\ entries = << <<"1">> >>
    /\ heard = <<>>
    /\ typed = <<>>
    /\ announced = <<1>>
    /\ model_questions = << <<"Q", "a">> >>
    /\ round_n = 1
    /\ round_prev = <<>>
    /\ round_cycles = 0
    /\ question_inputs = QuestionInputs(<<"S", "E">>, 1, <<>>)
    /\ feedback_inputs = FeedbackInputs(EmptyStr, EmptyStr, EmptyStr)
    /\ voice_reply = (IF voice THEN <<"Y">> ELSE <<"n", "o">>)
    /\ question_calls = 1
    /\ feedback_calls = 0
    /\ fault_site = ""
    /\ reminders = 0
    /\ closing_count = 0
    /\ iter_log = <<"question_call", "append", "announce_question">>

InitVoice == InitAnswer(TRUE)

InitText == InitAnswer(FALSE)

NextVoice ==
    \/ VoiceStart
    \/ \E o \in VoiceOutcomes : VoiceListen(o)
    \/ VoiceReturn
    \/ \E f \in FeedbackTexts : GenerateFeedback(f)
    \/ FeedbackFault
    \/ AnnounceFeedback

SpecVoice == InitVoice /\ [][NextVoice]_vars

NextText ==
    \/ TextStart
    \/ \E l \in TextLines : TextInput(l)
    \/ \E f \in FeedbackTexts : GenerateFeedback(f)
    \/ FeedbackFault
    \/ AnnounceFeedback

SpecText == InitText /\ [][NextText]_vars

(***************************************************************************)
(* The session from its first continuation prompt, with more kinds of      *)
(* replies: a one-question round in text mode has just completed.          *)
(***************************************************************************)
InitDecision ==
    /\ pc = "decision"
    /\ job_topic = <<"S", "E">>
    /\ voice_preference = <<"n", "o">>
    /\ use_voice = FALSE
    /\ questions_per_round = 1
    /\ question_number = 2
    /\ continue_practice = TRUE
    /\ previous_questions = << <<"Q", "a">> >>
    /\ i = 1
    /\ interview_question = <<"Q", "a">>
    /\ user_answer = <<"x">>
    /\ feedback = <<"F", "a">>
    /\ continue_input = EmptyStr
    /\ answer_parts = <<>>
    /\ silence_count = 0
    /\ answer_lines = << <<"x">> >>
    /\ last_spoken = Computed("feedback", <<"F", "a">>)
    /\ entries = << <<"1">> >>
    /\ heard = <<>>
    /\ typed = << <<"x">>, EmptyStr >>
    /\ announced = <<1>>
    /\ model_questions = << <<"Q", "a">> >>
    /\ round_n = 1
    /\ round_prev = <<>>
    /\ round_cycles = 1
    /\ question_inputs = QuestionInputs(<<"S", "E">>, 1, <<>>)
    /\ feedback_inputs = FeedbackInputs(<<"S", "E">>, <<"Q", "a">>, <<"x">>)
    /\ voice_reply = <<"n", "o">>
    /\ question_calls = 1
    /\ feedback_calls = 1
    /\ fault_site = ""
    /\ reminders = 0
    /\ closing_count = 0
    /\ iter_log = <<"question_call", "append", "announce_question", "collect",
                    "feedback_call", "announce_feedback">>

NextDecision ==
    \/ \E r \in DecisionReplies : RoundDecision(r)
    \/ \E q \in QuestionTexts : GenerateQuestion(q)
    \/ QuestionFault
    \/ AnnounceQuestion
    \/ TextStart
    \/ \E l \in SessionLines : TextInput(l)
    \/ \E f \in FeedbackTexts : GenerateFeedback(f)
    \/ FeedbackFault
    \/ AnnounceFeedback
    \/ Closing

SpecDecision == InitDecision /\ [][NextDecision]_vars

(***************************************************************************)
(* Whole sessions again, with more kinds of replies at the voice prompt    *)
(* and one text per model call.                                            *)
(***************************************************************************)
NextFrame ==
    \/ \E t \in Topics : ConfigTopic(t)
    \/ \E v \in FrameVoiceReplies : ConfigVoice(v)
    \/ \E e \in FrameEntries : ConfigCount(e)
    \/ \E q \in FrameQuestions : GenerateQuestion(q)
    \/ QuestionFault
    \/ AnnounceQuestion
    \/ VoiceStart
    \/ \E o \in FrameOutcomes : VoiceListen(o)
    \/ VoiceReturn
    \/ TextStart
    \/ \E l \in FrameLines : TextInput(l)
    \/ \E f \in FrameFeedbacks : GenerateFeedback(f)
    \/ FeedbackFault
    \/ AnnounceFeedback
    \/ \E r \in SessionDecisions : RoundDecision(r)
    \/ Closing

SpecFrame == Init /\ [][NextFrame]_vars

(***************************************************************************)
(* Properties.                                                             *)
(***************************************************************************)
IsPrefix(a, b) == Len(a) <= Len(b) /\ SubSeq(b, 1, Len(a)) = a

LastK(seq, k) == SubSeq(seq, Len(seq) - k + 1, Len(seq))

\* C1: when the round-decision prompt is reached after a round that started
\* with question number n and k questions per round, the question number is
\* n + k and previous_questions is its value at round start followed by the
\* k questions the model returned in this round, in the order returned.
C1_RoundAdvances ==
    pc = "decision" =>
        /\ question_number = round_n + questions_per_round
        /\ Len(previous_questions) = Len(round_prev) + questions_per_round
        /\ Len(model_questions) >= questions_per_round
        /\ previous_questions =
               round_prev \o LastK(model_questions, questions_per_round)

\* a round of two different questions has completed
C1_Witness ==
    /\ pc = "decision"
    /\ questions_per_round = 2
    /\ round_n = 1
    /\ model_questions = << <<"Q", "a">>, <<" ", "Q", "b">> >>

\* C2: the numbers announced over the whole session are 1, 2, 3, ...
\* without a gap, a repeat or a reset at a new round, and every step leaves
\* previous_questions a prefix of its next value.
C2_NumberingAndAppendOnly ==
    /\ [](\A k \in 1..Len(announced) : announced[k] = k)
    /\ [][IsPrefix(previous_questions, previous_questions')]_vars

\* the second round of a one-question session has announced question 2
C2_Witness ==
    /\ questions_per_round = 1
    /\ round_n = 2
    /\ announced = <<1, 2>>
    /\ Len(previous_questions) = 2

(***************************************************************************)
(* Voice answer collection.                                                *)
(***************************************************************************)
\* get_user_answer(True) has returned and its answer is not yet consumed
VoiceReturned == use_voice /\ pc \in {"gen_feedback", "announce_feedback"}

\* a listen() call that returned no recognized text: None, or a transcript
\* with nothing in it
NoText(o) == o.kind # "Recognized" \/ o.text = <<>>

RECURSIVE TrailingSilences(_)
\* the number of listen() calls without text at the end of h
TrailingSilences(h) ==
    IF h = <<>> \/ ~NoText(h[Len(h)]) THEN 0
    ELSE 1 + TrailingSilences(SubSeq(h, 1, Len(h) - 1))

\* three consecutive calls without text ended before the last call of h
StoppedEarlier(h) ==
    \E j \in 3..(Len(h) - 1) : NoText(h[j - 2]) /\ NoText(h[j - 1]) /\ NoText(h[j])

Script ==
    <<Recognized(Word_a), Unrecognized, Recognized(Word_b),
      Unrecognized, Unrecognized, Unrecognized>>

\* C3: the silence counter stays within 0..3 and equals the number of
\* listen() calls without text at the end of the calls made so far; no
\* listen() call is made after three consecutive calls without text, and the
\* collection returns only when the last three calls were without text. For
\* the script [Recognized(a), Unrecognized, Recognized(b), Unrecognized,
\* Unrecognized, Unrecognized] no seventh call is made and the result is
\* "a b".
C3_SilenceThreshold ==
    /\ silence_count \in 0..3
    /\ pc = "voice_listen" =>
           /\ silence_count = TrailingSilences(heard)
           /\ ~StoppedEarlier(heard)
    /\ VoiceReturned =>
           /\ TrailingSilences(heard) = 3
           /\ ~StoppedEarlier(heard)
    /\ (Len(heard) >= 6 /\ SubSeq(heard, 1, 6) = Script) => Len(heard) = 6
    /\ (VoiceReturned /\ heard = Script) => user_answer = <<"a", " ", "b">>

\* the script has been played and the answer returned
C3_Witness == VoiceReturned /\ heard = Script /\ silence_count = 3

\* the effect of one listen() call on the collector, as C4 states it: every
\* recognized text is appended and resets the counter
C4_StepAsClaimed(o) ==
    IF o.kind = "Recognized"
    THEN answer_parts' = Append(answer_parts, o.text) /\ silence_count' = 0
    ELSE silence_count' = silence_count + 1 /\ UNCHANGED answer_parts

\* the same with an empty recognized text counted as no text
C4_StepAsCoded(o) ==
    IF o.kind = "Recognized" /\ o.text # <<>>
    THEN answer_parts' = Append(answer_parts, o.text) /\ silence_count' = 0
    ELSE silence_count' = silence_count + 1 /\ UNCHANGED answer_parts

\* a listen() call has ended with one of the three outcomes of the recognizer
ListenStep ==
    /\ pc = "voice_listen"
    /\ heard' # heard
    /\ heard'[Len(heard')].kind \in {"Recognized", "Unrecognized", "ServiceError"}

\* C4 as stated: every recognized text, the empty string included, is
\* appended to the answer parts and resets the silence counter; Unrecognized
\* and ServiceError increment it.
C4_Original == [][ListenStep => C4_StepAsClaimed(heard'[Len(heard')])]_vars

\* C4 as amended: every non-empty recognized text is appended to the answer
\* parts and resets the silence counter to 0; an empty recognized text, like
\* Unrecognized and ServiceError, is not appended and increments the counter.
C4_Amended == [][ListenStep => C4_StepAsCoded(heard'[Len(heard')])]_vars

\* an empty transcript after a part has counted as a silence
C4_Witness ==
    /\ pc = "voice_listen"
    /\ heard = <<Recognized(Word_a), Recognized(EmptyStr)>>
    /\ answer_parts = <<Word_a>>
    /\ silence_count = 1

RECURSIVE RecognizedTexts(_)
\* the non-empty recognized texts of h, in arrival order
RecognizedTexts(h) ==
    IF h = <<>> THEN <<>>
    ELSE IF NoText(Head(h)) THEN RecognizedTexts(Tail(h))
    ELSE <<Head(h).text>> \o RecognizedTexts(Tail(h))

RECURSIVE SpaceJoined(_)
\* the texts of a non-empty sequence with one space between neighbours
SpaceJoined(ts) ==
    IF Len(ts) = 1 THEN ts[1]
    ELSE SpaceJoined(SubSeq(ts, 1, Len(ts) - 1)) \o <<" ">> \o ts[Len(ts)]

\* C5: the returned voice answer is the accumulated parts, which are the
\* recognized texts in arrival order, joined by single spaces; with no part
\* it is "No answer provided."; it is never the empty string.
C5_VoiceResult ==
    VoiceReturned =>
        /\ answer_parts = RecognizedTexts(heard)
        /\ user_answer = IF answer_parts = <<>> THEN NoAnswerProvided
                         ELSE SpaceJoined(answer_parts)
        /\ user_answer # EmptyStr

\* three failures from the start have returned the fallback
C5_Witness ==
    /\ VoiceReturned
    /\ heard = <<Unrecognized, ServiceError, Unrecognized>>
    /\ user_answer = NoAnswerProvided

\* C6: a listen() call ending in Unrecognized or in ServiceError only
\* increments the silence counter (and speaks the reminder when the counter
\* was 0), whichever of the two it is; it never ends the process, and the
\* collection ends only by returning the accumulated answer to the feedback
\* step.
C6_RecognitionErrorsDegrade ==
    /\ [][(ListenStep /\ heard'[Len(heard')].kind \in {"Unrecognized", "ServiceError"})
            => /\ pc' = "voice_listen"
               /\ silence_count' = silence_count + 1
               /\ last_spoken' = IF silence_count = 0
                                 THEN Fixed("Are you finished with your answer?")
                                 ELSE last_spoken
               /\ UNCHANGED <<answer_parts, configVars, sessionVars, iterVars>>]_vars
    /\ [][(pc = "voice_listen" /\ pc' = "crashed")
            => heard'[Len(heard')].kind \notin {"Unrecognized", "ServiceError"}]_vars
    /\ [][(pc = "voice_listen" /\ pc' \notin {"voice_listen", "crashed"})
            => /\ pc' = "gen_feedback"
               /\ user_answer' = IF answer_parts = <<>> THEN NoAnswerProvided
                                 ELSE SpaceJoined(answer_parts)]_vars

\* feedback was generated for an answer collected across both kinds of error
C6_Witness ==
    /\ pc = "announce_feedback"
    /\ heard = <<Recognized(Word_a), ServiceError, Unrecognized, ServiceError>>
    /\ user_answer = Word_a

(***************************************************************************)
(* Text answer collection.                                                 *)
(***************************************************************************)
\* get_user_answer(False) has returned and its answer is not yet consumed
TextReturned == ~use_voice /\ pc \in {"gen_feedback", "announce_feedback"}

\* a line with nothing but spaces and tabs in it
Blank(l) == \A k \in 1..Len(l) : l[k] \in {" ", "\t"}

RECURSIVE NewlineJoined(_)
\* the lines of a non-empty sequence with one newline between neighbours
NewlineJoined(ls) ==
    IF Len(ls) = 1 THEN ls[1]
    ELSE NewlineJoined(SubSeq(ls, 1, Len(ls) - 1)) \o <<"\n">> \o ls[Len(ls)]

RECURSIVE SplitLines(_)
\* the lines of a text, cut at its newlines
SplitLines(t) ==
    IF \A k \in 1..Len(t) : t[k] # "\n" THEN <<t>>
    ELSE LET k == CHOOSE j \in 1..Len(t) :
                      t[j] = "\n" /\ \A m \in 1..(j - 1) : t[m] # "\n"
         IN  <<SubSeq(t, 1, k - 1)>> \o SplitLines(SubSeq(t, k + 1, Len(t)))

\* C7: the text answer is the lines read from the first non-blank line up
\* to, not including, the first blank line after it, each as entered, joined
\* by newlines in entry order; blank lines before the first non-blank line
\* are skipped and nothing is read after the terminating blank line. The
\* lines "", "hello", "world", "" give "hello\nworld".
C7_TextResult ==
    /\ TextReturned =>
           \E f \in 1..(Len(typed) - 1) :
               /\ \A k \in 1..(f - 1) : Blank(typed[k])
               /\ \A k \in f..(Len(typed) - 1) : ~Blank(typed[k])
               /\ Blank(typed[Len(typed)])
               /\ user_answer = NewlineJoined(SubSeq(typed, f, Len(typed) - 1))
    /\ pc = "text_input" =>
           ~ \E j, k \in 1..Len(typed) :
                 j < k /\ ~Blank(typed[j]) /\ Blank(typed[k])
    /\ (TextReturned /\ typed = <<EmptyStr, Line_hello, Line_world, EmptyStr>>)
           => user_answer = <<"h", "e", "l", "l", "o", "\n", "w", "o", "r", "l", "d">>

\* the four lines of the example have been read and the answer returned
C7_Witness ==
    /\ TextReturned
    /\ typed = <<EmptyStr, Line_hello, Line_world, EmptyStr>>

\* C8: while every line read so far is blank (empty or whitespace only) the
\* collection has not returned and holds no content; the returned answer is
\* not empty and has at least one non-blank line.
C8_TextNeedsContent ==
    /\ (~use_voice /\ \A k \in 1..Len(typed) : Blank(typed[k]))
           => pc \in {"get_answer", "text_input"} /\ answer_lines = <<>>
    /\ TextReturned =>
           /\ user_answer # EmptyStr
           /\ \E k \in 1..Len(SplitLines(user_answer)) :
                  ~Blank(SplitLines(user_answer)[k])

\* an empty and a whitespace-only line came before the content
C8_Witness ==
    /\ TextReturned
    /\ typed = <<EmptyStr, <<" ", "\t">>, <<" ", "x", " ">>, EmptyStr>>
    /\ user_answer = <<" ", "x", " ">>

(***************************************************************************)
(* Configuration.                                                          *)
(***************************************************************************)
\* the positive integer a typed line denotes, 0 for a line that is not
\* numeric or denotes an integer <= 0
PositiveCount(e) ==
    CASE e = <<"1">> -> 1
      [] e = <<"+", "1">> -> 1
      [] e = <<"2">> -> 2
      [] e = <<" ", "2">> -> 2
      [] e = <<"0", "2">> -> 2
      [] OTHER -> 0

\* C9: an entry at the questions-per-round prompt that is not numeric or is
\* an integer <= 0 only speaks a re-prompt: the prompt stays open, no round
\* starts, job_topic and the voice choice keep their values; the first entry
\* that is a positive integer becomes questions_per_round and ends the
\* configuration, however many invalid entries came before it.
C9_InvalidCountReprompts ==
    /\ [][(pc = "cfg_count" /\ entries' # entries)
            => LET n == PositiveCount(entries'[Len(entries')]) IN
               IF n > 0
               THEN /\ questions_per_round' = n
                    /\ pc' = "gen_question"
                    /\ UNCHANGED <<job_topic, voice_preference, use_voice>>
               ELSE /\ pc' = "cfg_count"
                    /\ last_spoken' \in {Fixed("Please enter a positive number."),
                                         Fixed("Please enter a valid number.")}
                    /\ UNCHANGED <<job_topic, voice_preference, use_voice,
                                   sessionVars, iterVars, voiceVars, textVars,
                                   announced, model_questions>>]_vars
    /\ [](pc \notin {"cfg_topic", "cfg_voice", "cfg_count"} =>
            /\ entries # <<>>
            /\ \A k \in 1..(Len(entries) - 1) : PositiveCount(entries[k]) = 0
            /\ questions_per_round = PositiveCount(entries[Len(entries)])
            /\ questions_per_round > 0)

\* "-1", "0" and "abc" were rejected and " 2" accepted, topic and voice kept
C9_Witness ==
    /\ pc = "gen_question"
    /\ entries = << <<"-", "1">>, <<"0">>, <<"a", "b", "c">>, <<" ", "2">> >>
    /\ questions_per_round = 2
    /\ job_topic = <<"D", "S">>
    /\ use_voice

(***************************************************************************)
(* The states of the session.                                              *)
(***************************************************************************)
Phase ==
    CASE pc \in {"cfg_topic", "cfg_voice", "cfg_count"} -> "CONFIGURING"
      [] pc \in {"gen_question", "announce_question", "get_answer",
                 "voice_listen", "text_input", "gen_feedback",
                 "announce_feedback"} -> "ROUND_ACTIVE"
      [] pc = "decision" -> "ROUND_DECISION"
      [] pc \in {"closing", "done"} -> "TERMINATED"
      [] OTHER -> "CRASHED"

PhaseSteps ==
    {<<"CONFIGURING", "ROUND_ACTIVE">>, <<"ROUND_ACTIVE", "ROUND_DECISION">>,
     <<"ROUND_DECISION", "ROUND_ACTIVE">>, <<"ROUND_DECISION", "TERMINATED">>}

\* C10: unless a collaborator fault ends the process, the session changes
\* state only along CONFIGURING -> ROUND_ACTIVE -> ROUND_DECISION ->
\* (ROUND_ACTIVE | TERMINATED); the round-decision prompt is reached only
\* when questions_per_round question/answer/feedback cycles of the current
\* round are complete.
C10_SessionStates ==
    /\ [][\/ Phase' = Phase
          \/ <<Phase, Phase'>> \in PhaseSteps
          \/ Phase' = "CRASHED" /\ Phase = "ROUND_ACTIVE"]_vars
    /\ [](pc = "decision" =>
            /\ round_cycles = questions_per_round
            /\ Len(announced) = Len(round_prev) + questions_per_round)

\* a session of two one-question rounds has terminated
C10_Witness ==
    /\ pc = "done"
    /\ questions_per_round = 1
    /\ round_n = 2
    /\ Len(announced) = 2

(***************************************************************************)
(* The continuation prompt and the end of the session.                     *)
(***************************************************************************)
\* the replies that are "yes" or "y" when letter case is ignored
SaysYes(r) ==
    r \in {<<"y", "e", "s">>, <<"Y", "E", "S">>, <<"Y", "e", "s">>,
           <<"y", "E", "s">>, <<"y", "e", "S">>, <<"Y", "E", "s">>,
           <<"Y", "e", "S">>, <<"y", "E", "S">>, <<"y">>, <<"Y">>}

ClosingMessage == Fixed("Thank you for using InterviewMate Practice System.")

\* C11: at the continuation prompt a new round starts exactly when the
\* reply is "yes" or "y" in any letter case; after any other reply the
\* session only speaks the closing message: no question is generated, no
\* answer collected, no model call issued, the message is spoken once and
\* nothing follows it.
C11_DecisionAndClosing ==
    /\ [][pc = "decision"
            => IF SaysYes(continue_input')
               THEN /\ pc' = "gen_question"
                    /\ round_n' = question_number
                    /\ round_cycles' = 0
               ELSE pc' = "closing"]_vars
    /\ [][pc = "closing"
            => /\ pc' = "done"
               /\ last_spoken' = ClosingMessage
               /\ closing_count' = 1
               /\ UNCHANGED <<previous_questions, model_questions, announced,
                              question_calls, feedback_calls, user_answer,
                              feedback, heard, typed>>]_vars
    /\ [][pc # "done"]_vars
    /\ [](pc = "done" => closing_count = 1 /\ last_spoken = ClosingMessage)
    /\ [](pc # "done" => closing_count = 0)

\* a second round was run after a yes and "yes " then ended the session
C11_Witness ==
    /\ pc = "done"
    /\ round_n = 2
    /\ continue_input = <<"y", "e", "s", " ">>
    /\ closing_count = 1

(***************************************************************************)
(* The configuration during the session.                                   *)
(***************************************************************************)
Configured == pc \notin {"cfg_topic", "cfg_voice", "cfg_count"}

\* C12: once the configuration prompts are over, job_topic, use_voice and
\* questions_per_round keep their values: every round that reaches its
\* continuation prompt has asked questions_per_round questions, the value
\* entered; every request handed to the model carries job_topic; and answers
\* are collected by voice exactly when the reply at the voice prompt was
\* "yes" or "y" in any letter case.
C12_ConfigurationIsFixed ==
    /\ [][Configured => UNCHANGED <<job_topic, use_voice, questions_per_round>>]_vars
    /\ [](Configured
            => /\ questions_per_round = PositiveCount(entries[Len(entries)])
               /\ use_voice = SaysYes(voice_reply))
    /\ [](pc = "decision"
            => /\ round_cycles = questions_per_round
               /\ question_number - round_n = questions_per_round)
    /\ [](question_calls > 0 => question_inputs.job_topic = job_topic)
    /\ [](feedback_calls > 0 => feedback_inputs.job_topic = job_topic)
    /\ [](pc = "voice_listen" \/ heard # <<>> => SaysYes(voice_reply))
    /\ [](pc = "text_input" \/ typed # <<>> => ~SaysYes(voice_reply))

\* the second one-question round of a session configured with "YES" and
\* "DS" has collected its answer by voice and reached its prompt
C12_Witness ==
    /\ pc = "decision"
    /\ voice_reply = <<"Y", "E", "S">>
    /\ job_topic = <<"D", "S">>
    /\ questions_per_round = 1
    /\ question_number = 3
    /\ heard # <<>>
    /\ feedback_inputs.job_topic = <<"D", "S">>

(***************************************************************************)
(* The prompt of the question call.                                        *)
(***************************************************************************)
\* the prompt of the latest question call
SentPrompt == QuestionPrompt(question_inputs)

Contains(text, part) ==
    \E k \in 0..(Len(text) - Len(part)) : SubSeq(text, k + 1, k + Len(part)) = part

Bullet(q) == <<"-", " ">> \o q

StartsWithBullet(line) == Len(line) >= 2 /\ line[1] = "-" /\ line[2] = " "

BulletLines(lines) == {j \in 1..Len(lines) : StartsWithBullet(lines[j])}

\* the four lines of question_template that start with "- "
TemplateBullets ==
    {Bullet(<<"Technical and specific to the job topic">>),
     Bullet(<<"Similar to what might be asked in a real interview">>),
     Bullet(<<"Challenging but answerable">>),
     Bullet(<<"Clear and concise">>)}

\* C13: the prompt of question n > 1 holds one line "- q" for each of the
\* n-1 earlier questions q, on consecutive lines in generation order, and no
\* such line for the question being generated.
C13_ListedOnSeparateLines ==
    (pc = "announce_question" /\ question_number > 1) =>
        LET earlier == SubSeq(previous_questions, 1, question_number - 1)
            lines == SplitLines(SentPrompt)
        IN  /\ \E j \in 1..Len(lines) :
                   \A k \in 1..Len(earlier) :
                       /\ j + k - 1 <= Len(lines)
                       /\ lines[j + k - 1] = Bullet(earlier[k])
            /\ Cardinality({j \in BulletLines(lines) :
                              lines[j] \notin TemplateBullets}) = Len(earlier)

\* the third question was generated after "Qa" and " Qb", and invoke() was
\* handed the two of them as two lines
C13_Witness ==
    /\ pc = "announce_question"
    /\ question_number = 3
    /\ previous_questions[1] = <<"Q", "a">>
    /\ previous_questions[2] = <<" ", "Q", "b">>
    /\ question_inputs.previous_questions
         = <<"-", " ", "Q", "a", "\n", "-", " ", " ", "Q", "b">>

\* C14 as stated: the prompt of the first question holds "None yet." and no
\* line that starts with "- "; the prompt of a later question does not hold
\* "None yet.".
C14_Original ==
    /\ (pc = "announce_question" /\ question_number = 1) =>
           /\ Contains(SentPrompt, NoneYet)
           /\ BulletLines(SplitLines(SentPrompt)) = {}
    /\ (pc = "announce_question" /\ question_number > 1) =>
           ~Contains(SentPrompt, NoneYet)

\* C14, amended: the prompt of the first question holds "None yet." and its
\* only lines that start with "- " are the four lines of the template that
\* do, none for a question; the prompt of a later question does not hold
\* "None yet.".
C14_Amended ==
    /\ (pc = "announce_question" /\ question_number = 1) =>
           LET lines == SplitLines(SentPrompt)
           IN  /\ Contains(SentPrompt, NoneYet)
               /\ Cardinality(BulletLines(lines)) = 4
               /\ {lines[j] : j \in BulletLines(lines)} = TemplateBullets
    /\ (pc = "announce_question" /\ question_number > 1) =>
           ~Contains(SentPrompt, NoneYet)

\* the first question of a session on "DS" was generated
C14_Witness ==
    /\ pc = "announce_question"
    /\ question_number = 1
    /\ job_topic = <<"D", "S">>
    /\ question_inputs.previous_questions = NoneYet
    /\ previous_questions = << <<" ", "Q", "b">> >>

(***************************************************************************)
(* Faults of the model calls.                                              *)
(***************************************************************************)
\* C15: an exception of the question call or of the feedback call ends the
\* process: the step that raises speaks at most "Analyzing your answer..."
\* and records no question, answer or feedback, no step follows it (no announcement, no answer
\* collection, no feedback, no continuation prompt, no closing message), and
\* the call that raised is the last call of its kind: it was issued once.
C15_ModelFaultIsFatal ==
    /\ [][fault_site' \in {"question", "feedback"}
            => /\ pc' = "crashed"
               /\ last_spoken' \in {last_spoken, Fixed("Analyzing your answer...")}
               /\ UNCHANGED <<previous_questions, model_questions, announced,
                              user_answer, feedback, closing_count,
                              question_number, heard, typed>>]_vars
    /\ [][pc # "crashed"]_vars
    /\ [](fault_site = "question"
            => /\ pc = "crashed"
               /\ closing_count = 0
               /\ question_calls = Len(model_questions) + 1
               /\ question_calls = question_number
               /\ feedback_calls = question_number - 1
               /\ iter_log = <<"question_call">>)
    /\ [](fault_site = "feedback"
            => /\ pc = "crashed"
               /\ closing_count = 0
               /\ question_calls = Len(model_questions)
               /\ feedback_calls = question_number
               /\ iter_log = <<"question_call", "append", "announce_question",
                               "collect", "feedback_call">>)
    /\ [](fault_site = "" => question_calls = Len(model_questions))

\* the feedback call of the second question raised
C15_Witness ==
    /\ pc = "crashed"
    /\ fault_site = "feedback"
    /\ question_number = 2
    /\ feedback_calls = 2
    /\ last_spoken = Fixed("Analyzing your answer...")

(***************************************************************************)
(* The reminder of the voice answer collection.                            *)
(***************************************************************************)
RECURSIVE RunStarts(_)
\* the number of listen() calls of h without text that follow a call with
\* text or are the first call
RunStarts(h) ==
    IF h = <<>> THEN 0
    ELSE LET front == SubSeq(h, 1, Len(h) - 1)
         IN  RunStarts(front)
             + (IF NoText(h[Len(h)]) /\ (front = <<>> \/ ~NoText(front[Len(front)]))
                THEN 1 ELSE 0)

\* C16: in a voice collection "Are you finished with your answer?" is spoken
\* exactly by the listen() calls that take the silence counter from 0 to 1:
\* once at the first call without text of every run of such calls, not at
\* the second or third of a run, never after a call with text, and again
\* when a run starts after the counter was reset. The script [Recognized(a),
\* Unrecognized, Recognized(b), Unrecognized, Unrecognized, Unrecognized]
\* speaks it twice.
C16_ReminderAtRunStart ==
    /\ [][(pc = "voice_listen" /\ heard' # heard /\ pc' # "crashed")
            => /\ (reminders' = reminders + 1)
                    = (silence_count = 0 /\ silence_count' = 1)
               /\ reminders' \in {reminders, reminders + 1}
               /\ (reminders' = reminders + 1)
                    => last_spoken' = Fixed("Are you finished with your answer?")
               /\ (reminders' = reminders) => last_spoken' = last_spoken
               /\ ~NoText(heard'[Len(heard')]) => reminders' = reminders]_vars
    /\ [](fault_site # "listen" => reminders = RunStarts(heard))
    /\ [](heard = Script => reminders = 2)

\* the script has been heard and the collection has returned
C16_Witness ==
    /\ VoiceReturned
    /\ heard = Script
    /\ reminders = 2
    /\ silence_count = 3

(***************************************************************************)
(* One question: the order of its events and what they carry.              *)
(***************************************************************************)
IterOrder ==
    <<"question_call", "append", "announce_question", "collect",
      "feedback_call", "announce_feedback">>

Collecting == pc \in {"voice_listen", "text_input"}

\* C17: the session does one thing at a time, and the events of a question
\* come in the order question call, append to previous_questions, question
\* announcement, answer collection, feedback call, feedback announcement;
\* the call for the next question is issued only after the feedback of this
\* one has been announced.
C17_TurnTaking ==
    /\ [](IsPrefix(iter_log, IterOrder))
    /\ [](question_calls - feedback_calls \in {0, 1})
    /\ [][question_calls' # question_calls
            => /\ iter_log \in {<<>>, IterOrder}
               /\ feedback_calls = question_calls
               /\ question_calls' = question_calls + 1]_vars
    /\ [][previous_questions' # previous_questions
            => /\ question_calls' = question_calls + 1
               /\ Len(previous_questions') = Len(previous_questions) + 1
               /\ announced' = announced]_vars
    /\ [][announced' # announced
            => /\ SubSeq(iter_log, 1, 2) = <<"question_call", "append">>
               /\ Len(iter_log) = 2
               /\ Len(announced') = Len(previous_questions)
               /\ ~Collecting']_vars
    /\ [][(~Collecting /\ Collecting')
            => /\ iter_log = SubSeq(IterOrder, 1, 3)
               /\ Len(announced) = question_calls
               /\ feedback_calls = question_calls - 1]_vars
    /\ [][feedback_calls' # feedback_calls
            => /\ iter_log = SubSeq(IterOrder, 1, 4)
               /\ ~Collecting /\ ~Collecting'
               /\ feedback_calls' = question_calls]_vars
    /\ [][(pc = "announce_feedback" /\ pc' # pc)
            => /\ iter_log = SubSeq(IterOrder, 1, 5)
               /\ iter_log' = IterOrder
               /\ feedback_calls = question_calls
               /\ UNCHANGED <<question_calls, feedback_calls>>]_vars

\* the second question has gone through its six events
C17_Witness ==
    /\ iter_log = IterOrder
    /\ question_calls = 2
    /\ feedback_calls = 2
    /\ Len(announced) = 2
    /\ pc = "decision"

NotBlank(l) == ~Blank(l)

\* the answer that the calls and lines of the latest collection amount to
CollectedNow ==
    IF use_voice
    THEN IF RecognizedTexts(heard) = <<>> THEN NoAnswerProvided
         ELSE SpaceJoined(RecognizedTexts(heard))
    ELSE NewlineJoined(SelectSeq(typed, NotBlank))

C19_NumbersAgree ==
    /\ [](pc \in {"gen_question", "decision"}
            => Len(previous_questions) = question_number - 1)
    /\ [](pc \in {"announce_question", "get_answer", "voice_listen",
                  "text_input", "gen_feedback", "announce_feedback"}
            => Len(previous_questions) = question_number)
    /\ [](\A k \in 1..Len(announced) : announced[k] = k)
    /\ [][question_calls' # question_calls
            => /\ question_inputs'.question_number = Len(previous_questions) + 1
               /\ question_inputs'.question_number = question_number]_vars
    /\ [](pc = "announce_question"
            => Contains(SentPrompt, <<"'question_number'", ":", " ">>
                                      \o IntStr(question_number) \o <<",">>))
    /\ [][announced' # announced
            => /\ announced'[Len(announced')] = question_inputs.question_number
               /\ announced'[Len(announced')] = Len(previous_questions)
               /\ previous_questions[Len(previous_questions)] = interview_question
               /\ last_spoken' = Computed("question", interview_question)]_vars

\* the third question has been announced
C19_Witness ==
    /\ pc = "get_answer"
    /\ announced = <<1, 2, 3>>
    /\ question_inputs.question_number = 3
    /\ Len(previous_questions) = 3

====
